---- MODULE Spec2Model ----
(***************************************************************************)
(* couch-revision-purge: host enumeration (network.Hosts, network.inc),    *)
(* the concurrent scanner (network.ScanNetwork) and the maintenance        *)
(* workflow of main / couchdb.CouchDBClient against one CouchDB server.     *)
(***************************************************************************)
EXTENDS Integers, Sequences, FiniteSets, TLC

(***************************************************************************)
(* Addresses.  An IPv4 address is AddrLen bytes; the model keeps the byte  *)
(* structure (inc carries from byte to byte) and scales the width of one   *)
(* byte down to ByteBits bits, so that whole blocks can be enumerated.     *)
(***************************************************************************)
AddrLen == 4
ByteBits == 1
MemSlack == 2

RECURSIVE Pow2(_)
Pow2(n) == IF n = 0 THEN 1 ELSE 2 * Pow2(n - 1)

ByteMod == Pow2(ByteBits)
AddrBits == AddrLen * ByteBits
Byte == 0 .. (ByteMod - 1)
Addr == [1 .. AddrLen -> Byte]

\* Entries the slice ips can hold before the process runs out of memory.
MemCap == Pow2(AddrBits) + MemSlack

\* a & b on bytes of n bits.
RECURSIVE BitAnd(_, _, _)
BitAnd(a, b, n) ==
    IF n = 0 THEN 0
    ELSE 2 * BitAnd(a \div 2, b \div 2, n - 1) + (IF a % 2 = 1 /\ b % 2 = 1 THEN 1 ELSE 0)

Min(a, b) == IF a < b THEN a ELSE b
Max(a, b) == IF a > b THEN a ELSE b

\* net.CIDRMask(prefix, bits): prefix leading one bits.
CIDRMask(prefix) ==
    [j \in 1 .. AddrLen |->
        ByteMod - Pow2(ByteBits - Min(ByteBits, Max(0, prefix - (j - 1) * ByteBits)))]

\* ip.Mask(mask)
Mask(a, mask) == [j \in 1 .. AddrLen |-> BitAnd(a[j], mask[j], ByteBits)]

\* net.ParseCIDR: the network of a parsed block.
ParseCIDR(c) == [IP |-> Mask(c.ip, CIDRMask(c.prefix)), Mask |-> CIDRMask(c.prefix)]

\* ipnet.Contains(ip)
Contains(ipnet, a) ==
    \A j \in 1 .. AddrLen :
        BitAnd(ipnet.IP[j], ipnet.Mask[j], ByteBits) = BitAnd(a[j], ipnet.Mask[j], ByteBits)

\* The loop of inc from byte j down to byte 1: ip[j]++ wraps; stop at the
\* first byte that did not wrap to 0.
RECURSIVE incFrom(_, _)
incFrom(a, j) ==
    IF j = 0 THEN a
    ELSE LET b == (a[j] + 1) % ByteMod
             a2 == [a EXCEPT ![j] = b]
         IN IF b > 0 THEN a2 ELSE incFrom(a2, j - 1)

inc(a) == incFrom(a, AddrLen)

\* The address as an unsigned number, most significant byte first.
RECURSIVE ToIntFrom(_, _)
ToIntFrom(a, j) == IF j = 0 THEN 0 ELSE ToIntFrom(a, j - 1) * ByteMod + a[j]
ToInt(a) == ToIntFrom(a, AddrLen)

\* The inputs of Hosts: a string that does not parse, or an address and a
\* prefix length.
BadCIDR == [ok |-> FALSE, ip |-> [j \in 1 .. AddrLen |-> 0], prefix |-> 0]
AllCIDR == [ok : {TRUE}, ip : Addr, prefix : 0 .. AddrBits]
ScanCIDR == [ok : {TRUE}, ip : Addr, prefix : (AddrBits - 2) .. AddrBits]

\* The addresses of the block of c.
BlockAddrs(c) == {a \in Addr : Contains(ParseCIDR(c), a)}

VARIABLES cidr, hpc, ip, ips, hostsRet,
          spc, oracle, k, tasks, mu, wg, foundIPs, scanRet,
          mpc, nInst, inst, srv, doc, revisions, ri, rows, rowi, ci,
          reqs, fatalMsg, completed, fetched, before,
          ppc, target, dial, open, probeRet,
          rpc, rreq, rresp, rret,
          opc, reported, mainFound, probed, processed

hostVars == <<cidr, hpc, ip, ips, hostsRet>>
scanVars == <<spc, oracle, k, tasks, mu, wg, foundIPs, scanRet>>
clientVars == <<doc, revisions, ri, rows, rowi, ci>>
flowVars == <<mpc, nInst, inst, srv, clientVars, reqs, fatalMsg, completed, fetched, before>>
probeVars == <<ppc, target, dial, open, probeRet>>
restVars == <<rpc, rreq, rresp, rret>>
orchVars == <<opc, reported, mainFound, probed, processed>>
callVars == <<probeVars, restVars, orchVars>>
vars == <<hostVars, scanVars, flowVars, callVars>>

\* The workflow has not started: the state of its variables while only
\* Hosts or ScanNetwork run.
NoMap == <<>>
NoServer == [docs |-> NoMap, hist |-> <<>>, live |-> {}, design |-> "none", compactions |-> 0]

FlowIdle ==
    /\ mpc = "none"
    /\ nInst = 0
    /\ inst = 0
    /\ srv = NoServer
    /\ doc = NoMap
    /\ revisions = <<>>
    /\ ri = 0
    /\ rows = <<>>
    /\ rowi = 0
    /\ ci = 0
    /\ reqs = <<>>
    /\ fatalMsg = <<>>
    /\ completed = 0
    /\ fetched = NoMap
    /\ before = NoServer

\* No probe and no RestClient call is under way.
NilBytes == [nil |-> TRUE]
Bytes(b) == [nil |-> FALSE, bytes |-> b]
NoErr == <<>>
NoRequest == [method |-> "none", payloadOK |-> TRUE]
NoResponse == [status |-> 0, body |-> "", read |-> FALSE]
NoReturn == [body |-> NilBytes, err |-> NoErr]

ProbeIdle ==
    /\ ppc = "none"
    /\ target = <<>>
    /\ dial = "none"
    /\ open = {}
    /\ probeRet = "none"

RestIdle ==
    /\ rpc = "none"
    /\ rreq = NoRequest
    /\ rresp = NoResponse
    /\ rret = NoReturn

\* main is not running: Hosts, a scan, a workflow or a call is looked at on
\* its own.
OrchIdle ==
    /\ opc = "none"
    /\ reported = <<>>
    /\ mainFound = <<>>
    /\ probed = <<>>
    /\ processed = <<>>

CallIdle == ProbeIdle /\ RestIdle /\ OrchIdle

(***************************************************************************)
(* Hosts                                                                   *)
(***************************************************************************)
ZeroAddr == [j \in 1 .. AddrLen |-> 0]

HostsIdle ==
    /\ hpc = "call"
    /\ ip = ZeroAddr
    /\ ips = <<>>
    /\ hostsRet = <<>>

\* ip, ipnet, err := net.ParseCIDR(cidr); if err != nil { return nil, err }
HostsParseError ==
    /\ hpc = "call"
    /\ ~cidr.ok
    /\ hpc' = "error"
    /\ UNCHANGED <<cidr, ip, ips, hostsRet, scanVars, flowVars, callVars>>

\* var ips []string; ip := ip.Mask(ipnet.Mask)
HostsParse ==
    /\ hpc = "call"
    /\ cidr.ok
    /\ ip' = Mask(cidr.ip, ParseCIDR(cidr).Mask)
    /\ ips' = <<>>
    /\ hpc' = "loop"
    /\ UNCHANGED <<cidr, hostsRet, scanVars, flowVars, callVars>>

\* for ...; ipnet.Contains(ip); inc(ip) { ips = append(ips, ip.String()) }
HostsLoop ==
    /\ hpc = "loop"
    /\ Contains(ParseCIDR(cidr), ip)
    /\ Len(ips) < MemCap
    /\ ips' = Append(ips, ip)
    /\ ip' = inc(ip)
    /\ UNCHANGED <<cidr, hpc, hostsRet, scanVars, flowVars, callVars>>

\* append cannot grow ips any further: the runtime aborts the process.
HostsOutOfMemory ==
    /\ hpc = "loop"
    /\ Contains(ParseCIDR(cidr), ip)
    /\ Len(ips) >= MemCap
    /\ hpc' = "oom"
    /\ UNCHANGED <<cidr, ip, ips, hostsRet, scanVars, flowVars, callVars>>

\* The bounds of ips[1 : len(ips)-1] are in range when 1 <= len(ips)-1.
SliceInRange(s) == 1 <= Len(s) - 1

\* return ips[1 : len(ips)-1], nil
HostsReturn ==
    /\ hpc = "loop"
    /\ ~Contains(ParseCIDR(cidr), ip)
    /\ SliceInRange(ips)
    /\ hostsRet' = SubSeq(ips, 2, Len(ips) - 1)
    /\ hpc' = "returned"
    /\ UNCHANGED <<cidr, ip, ips, scanVars, flowVars, callVars>>

\* ips[1 : len(ips)-1] with len(ips) = 1: slice bounds out of range [1:0].
HostsPanic ==
    /\ hpc = "loop"
    /\ ~Contains(ParseCIDR(cidr), ip)
    /\ ~SliceInRange(ips)
    /\ hpc' = "panic"
    /\ UNCHANGED <<cidr, ip, ips, hostsRet, scanVars, flowVars, callVars>>

ScanIdle ==
    /\ oracle = {}
    /\ k = 0
    /\ tasks = <<>>
    /\ mu = 0
    /\ wg = 0
    /\ foundIPs = <<>>
    /\ scanRet = <<>>

InitHosts ==
    /\ cidr \in AllCIDR \cup {BadCIDR}
    /\ HostsIdle
    /\ spc = "none"
    /\ ScanIdle
    /\ FlowIdle
    /\ CallIdle

NextHosts ==
    \/ HostsParseError
    \/ HostsParse
    \/ HostsLoop
    \/ HostsOutOfMemory
    \/ HostsReturn
    \/ HostsPanic

SpecHosts == InitHosts /\ [][NextHosts]_vars

(***************************************************************************)
(* ScanNetwork                                                             *)
(***************************************************************************)
\* isCouchDBRunning(ip, couchDBPort): the reachability oracle of the run.
isCouchDBRunning(a) == a \in oracle

\* A lock that never blocks.
CanLockAlways(m) == TRUE

\* mu.Lock() returns only while no task holds mu.
CanLock(m) == m = 0

\* A wait that never blocks.
WaitNoBlock(n) == TRUE

\* wg.Wait() returns only when the counter is zero.
WaitDone(n) == n = 0

\* wg.Add(1)
wgAdd(n) == n + 1

SetTask(t, pcv) == [tasks EXCEPT ![t].pc = pcv]

\* The parse error is logged and the scan goes on with no hosts.
ScanHostsErrorLogged ==
    /\ spc = "hosts"
    /\ hpc = "error"
    /\ spc' = "range"
    /\ k' = 1
    /\ UNCHANGED <<flowVars, hostVars, oracle, tasks, mu, wg, foundIPs, scanRet, callVars>>

\* ips, err := Hosts(cidr); if err != nil { logger.Fatalf(...) }
ScanHostsError ==
    /\ spc = "hosts"
    /\ hpc = "error"
    /\ spc' = "fatal"
    /\ UNCHANGED <<flowVars, hostVars, oracle, k, tasks, mu, wg, foundIPs, scanRet, callVars>>

\* The panic of Hosts unwinds ScanNetwork.
ScanHostsPanic ==
    /\ spc = "hosts"
    /\ hpc = "panic"
    /\ spc' = "panic"
    /\ UNCHANGED <<flowVars, hostVars, oracle, k, tasks, mu, wg, foundIPs, scanRet, callVars>>

\* var foundIPs []string; var mu sync.Mutex; var wg sync.WaitGroup
ScanBegin ==
    /\ spc = "hosts"
    /\ hpc = "returned"
    /\ spc' = "range"
    /\ k' = 1
    /\ foundIPs' = <<>>
    /\ mu' = 0
    /\ wg' = 0
    /\ tasks' = <<>>
    /\ UNCHANGED <<flowVars, hostVars, oracle, scanRet, callVars>>

\* for _, ip := range ips { wg.Add(1); go func(ip string) {...}(ip) }
ScanSpawn ==
    /\ spc = "range"
    /\ k <= Len(hostsRet)
    /\ wg' = wgAdd(wg)
    /\ tasks' = Append(tasks, [ip |-> hostsRet[k], pc |-> "probe", tmp |-> <<>>])
    /\ k' = k + 1
    /\ UNCHANGED <<flowVars, hostVars, spc, oracle, mu, foundIPs, scanRet, callVars>>

\* The range loop is over: wg.Wait()
ScanWait ==
    /\ spc = "range"
    /\ k > Len(hostsRet)
    /\ spc' = "wait"
    /\ UNCHANGED <<flowVars, hostVars, oracle, k, tasks, mu, wg, foundIPs, scanRet, callVars>>

\* wg.Wait() returns; return foundIPs
ScanReturn ==
    /\ spc = "wait"
    /\ WaitDone(wg)
    /\ spc' = "returned"
    /\ scanRet' = foundIPs
    /\ UNCHANGED <<flowVars, hostVars, oracle, k, tasks, mu, wg, foundIPs, callVars>>

\* if isCouchDBRunning(ip, couchDBPort) {
TaskProbe(t) ==
    /\ tasks[t].pc = "probe"
    /\ tasks' = SetTask(t, IF isCouchDBRunning(tasks[t].ip) THEN "lock" ELSE "defer")
    /\ UNCHANGED <<flowVars, hostVars, spc, oracle, k, mu, wg, foundIPs, scanRet, callVars>>

\* A task that goes on to the append without taking mu.
TaskLockNoMutex(t) ==
    /\ tasks[t].pc = "lock"
    /\ tasks' = SetTask(t, "read")
    /\ UNCHANGED <<flowVars, hostVars, spc, oracle, k, mu, wg, foundIPs, scanRet, callVars>>

\* mu.Lock()
TaskLock(t) ==
    /\ tasks[t].pc = "lock"
    /\ CanLock(mu)
    /\ mu' = t
    /\ tasks' = SetTask(t, "read")
    /\ UNCHANGED <<flowVars, hostVars, spc, oracle, k, wg, foundIPs, scanRet, callVars>>

\* append(foundIPs, ip): the slice is read ...
TaskRead(t) ==
    /\ tasks[t].pc = "read"
    /\ tasks' = [tasks EXCEPT ![t].pc = "write", ![t].tmp = foundIPs]
    /\ UNCHANGED <<flowVars, hostVars, spc, oracle, k, mu, wg, foundIPs, scanRet, callVars>>

\* ... and foundIPs = <the grown slice> is stored.
TaskWrite(t) ==
    /\ tasks[t].pc = "write"
    /\ foundIPs' = Append(tasks[t].tmp, tasks[t].ip)
    /\ tasks' = SetTask(t, "unlock")
    /\ UNCHANGED <<flowVars, hostVars, spc, oracle, k, mu, wg, scanRet, callVars>>

\* mu.Unlock()
TaskUnlock(t) ==
    /\ tasks[t].pc = "unlock"
    /\ mu' = 0
    /\ tasks' = SetTask(t, "defer")
    /\ UNCHANGED <<flowVars, hostVars, spc, oracle, k, wg, foundIPs, scanRet, callVars>>

\* defer wg.Done()
TaskDone(t) ==
    /\ tasks[t].pc = "defer"
    /\ wg' = wg - 1
    /\ tasks' = SetTask(t, "done")
    /\ UNCHANGED <<flowVars, hostVars, spc, oracle, k, mu, foundIPs, scanRet, callVars>>

InitScan ==
    /\ cidr \in ScanCIDR \cup {BadCIDR}
    /\ HostsIdle
    /\ spc = "hosts"
    /\ oracle \in (IF cidr.ok THEN SUBSET BlockAddrs(cidr) ELSE {{}})
    /\ k = 0
    /\ tasks = <<>>
    /\ mu = 0
    /\ wg = 0
    /\ foundIPs = <<>>
    /\ scanRet = <<>>
    /\ FlowIdle
    /\ CallIdle

NextScan ==
    \/ (spc = "hosts" /\ HostsParseError)
    \/ (spc = "hosts" /\ HostsParse)
    \/ (spc = "hosts" /\ HostsLoop)
    \/ (spc = "hosts" /\ HostsReturn)
    \/ (spc = "hosts" /\ HostsPanic)
    \/ ScanHostsError
    \/ ScanHostsPanic
    \/ ScanBegin
    \/ ScanSpawn
    \/ ScanWait
    \/ ScanReturn
    \/ \E t \in DOMAIN tasks : TaskProbe(t)
    \/ \E t \in DOMAIN tasks : TaskLock(t)
    \/ \E t \in DOMAIN tasks : TaskRead(t)
    \/ \E t \in DOMAIN tasks : TaskWrite(t)
    \/ \E t \in DOMAIN tasks : TaskUnlock(t)
    \/ \E t \in DOMAIN tasks : TaskDone(t)

SpecScan == InitScan /\ [][NextScan]_vars

\* ScanNetwork under a scheduler that lets the goroutine of ScanNetwork and
\* every probe task take its next step when it can: the Go scheduler is
\* preemptive and sync.Mutex hands a released lock to a waiter.  There are at most as many tasks as the largest block of ScanCIDR has
\* addresses.
TaskIds == 1 .. Pow2(AddrBits - (AddrBits - 2))

TaskStep(t) ==
    /\ t \in DOMAIN tasks
    /\ \/ TaskProbe(t)
       \/ TaskLock(t)
       \/ TaskRead(t)
       \/ TaskWrite(t)
       \/ TaskUnlock(t)
       \/ TaskDone(t)

ScanStep ==
    \/ (spc = "hosts" /\ (HostsParseError \/ HostsParse \/ HostsLoop \/ HostsReturn \/ HostsPanic))
    \/ ScanHostsError
    \/ ScanHostsPanic
    \/ ScanBegin
    \/ ScanSpawn
    \/ ScanWait
    \/ ScanReturn

FairScan == WF_vars(ScanStep) /\ \A t \in TaskIds : WF_vars(TaskStep(t))

SpecScanFair == SpecScan /\ FairScan

(***************************************************************************)
(* main from the first call of ScanNetwork to the end of the loop over the *)
(* instances.  The scans run as ScanNetwork above; the workflow of one     *)
(* instance, modelled step by step above, is one step here.  probed lists  *)
(* the addresses the finished scans have probed, processed the instances   *)
(* the workflow was started for.                                           *)
(***************************************************************************)
\* The next call of ScanNetwork starts, against the hosts that listen now.
CallScanNetwork ==
    /\ hpc' = "call"
    /\ ip' = ZeroAddr
    /\ ips' = <<>>
    /\ hostsRet' = <<>>
    /\ spc' = "hosts"
    /\ oracle' \in SUBSET BlockAddrs(cidr)
    /\ k' = 0
    /\ tasks' = <<>>
    /\ mu' = 0
    /\ wg' = 0
    /\ foundIPs' = <<>>
    /\ scanRet' = <<>>

\* One step of the call of ScanNetwork that is under way.
MainScanning ==
    /\ opc \in {"scan1", "scan2"}
    /\ NextScan

\* foundInstances := network.ScanNetwork(...); logger.Printf("Found %d
\* CouchDB instances on the network.", foundInstances); then the second
\* call of ScanNetwork begins.
MainReportScan ==
    /\ opc = "scan1"
    /\ spc = "returned"
    /\ reported' = scanRet
    /\ probed' = probed \o [t \in DOMAIN tasks |-> tasks[t].ip]
    /\ opc' = "scan2"
    /\ CallScanNetwork
    /\ UNCHANGED <<cidr, mainFound, processed, flowVars, probeVars, restVars>>

\* foundIPs := network.ScanNetwork(...)
MainTakeScan ==
    /\ opc = "scan2"
    /\ spc = "returned"
    /\ mainFound' = scanRet
    /\ probed' = probed \o [t \in DOMAIN tasks |-> tasks[t].ip]
    /\ opc' = "range"
    /\ UNCHANGED <<reported, processed, hostVars, scanVars, flowVars, probeVars, restVars>>

\* for _, ip := range foundIPs { ... }: the workflow of the next instance,
\* which completes or ends the run with logger.Fatalf.
MainWorkflow ==
    /\ opc = "range"
    /\ Len(processed) < Len(mainFound)
    /\ processed' = Append(processed, mainFound[Len(processed) + 1])
    /\ \E done \in BOOLEAN : opc' = IF done THEN "range" ELSE "fatal"
    /\ UNCHANGED <<reported, mainFound, probed, hostVars, scanVars, flowVars, probeVars, restVars>>

\* The loop is over, or no instance was found: "Scan completed successfully."
MainFinish ==
    /\ opc = "range"
    /\ Len(processed) = Len(mainFound)
    /\ opc' = "done"
    /\ UNCHANGED <<reported, mainFound, probed, processed, hostVars, scanVars, flowVars,
                   probeVars, restVars>>

InitMain ==
    /\ cidr \in {c \in ScanCIDR : c.ip = ZeroAddr} \cup {BadCIDR}
    /\ HostsIdle
    /\ spc = "hosts"
    /\ oracle \in (IF cidr.ok THEN SUBSET BlockAddrs(cidr) ELSE {{}})
    /\ k = 0
    /\ tasks = <<>>
    /\ mu = 0
    /\ wg = 0
    /\ foundIPs = <<>>
    /\ scanRet = <<>>
    /\ FlowIdle
    /\ ProbeIdle
    /\ RestIdle
    /\ opc = "scan1"
    /\ reported = <<>>
    /\ mainFound = <<>>
    /\ probed = <<>>
    /\ processed = <<>>

NextMain ==
    \/ MainScanning
    \/ MainReportScan
    \/ MainTakeScan
    \/ MainWorkflow
    \/ MainFinish

SpecMain == InitMain /\ [][NextMain]_vars

(***************************************************************************)
(* JSON values.  A value is tagged: a number (the bits of a non-negative   *)
(* integer, most significant first), a string, an array or an object.      *)
(* Revision ids are strings kept as sequences of characters (tag "rev").   *)
(***************************************************************************)
MantBits == 53
Threshold == 100000
MaxRevs == 3
MaxInst == 2

JNum(b) == [t |-> "num", v |-> b]
JStr(x) == [t |-> "str", v |-> x]
JArr(x) == [t |-> "arr", v |-> x]
JObj(f) == [t |-> "obj", v |-> f]

Zeros(n) == [i \in 1 .. n |-> 0]

\* b + 1 on a sequence of bits.
RECURSIVE BinInc(_)
BinInc(b) ==
    IF b = <<>> THEN <<1>>
    ELSE IF b[Len(b)] = 0 THEN [b EXCEPT ![Len(b)] = 1]
    ELSE Append(BinInc(SubSeq(b, 1, Len(b) - 1)), 0)

\* strconv.ParseFloat(s, 64) of an integer literal: the nearest float64,
\* a significand of MantBits bits, ties to even.
Float64(b) ==
    IF Len(b) <= MantBits THEN b
    ELSE LET top == SubSeq(b, 1, MantBits)
             rest == SubSeq(b, MantBits + 1, Len(b))
             tail == \E i \in 2 .. Len(rest) : rest[i] = 1
             up == rest[1] = 1 /\ (tail \/ top[MantBits] = 1)
         IN (IF up THEN BinInc(top) ELSE top) \o Zeros(Len(rest))

\* json.Unmarshal into interface{}: every number becomes a float64.
RECURSIVE Unmarshal(_)
Unmarshal(x) ==
    CASE x.t = "num" -> JNum(Float64(x.v))
      [] x.t \in {"str", "rev"} -> x
      [] x.t = "arr" -> JArr([i \in DOMAIN x.v |-> Unmarshal(x.v[i])])
      [] x.t = "obj" -> JObj([f \in DOMAIN x.v |-> Unmarshal(x.v[f])])

\* json.Unmarshal(body, &doc) with doc map[string]interface{}
UnmarshalMap(body) == [f \in DOMAIN body |-> Unmarshal(body[f])]

\* json.Marshal: a float64 is written with the shortest digits that read
\* back as the same float64.
RECURSIVE Marshal(_)
Marshal(x) ==
    CASE x.t = "num" -> JNum(Float64(x.v))
      [] x.t \in {"str", "rev"} -> x
      [] x.t = "arr" -> JArr([i \in DOMAIN x.v |-> Marshal(x.v[i])])
      [] x.t = "obj" -> JObj([f \in DOMAIN x.v |-> Marshal(x.v[f])])

MarshalMap(m) == [f \in DOMAIN m |-> Marshal(m[f])]

\* delete(doc, key)
Without(m, key) == [f \in DOMAIN m \ {key} |-> m[f]]

DigitChars == <<"0", "1", "2", "3", "4", "5", "6", "7", "8", "9">>
IsDigit(c) == \E i \in DOMAIN DigitChars : DigitChars[i] = c
DigitVal(c) == (CHOOSE i \in DOMAIN DigitChars : DigitChars[i] = c) - 1

\* The decimal digits of n.
RECURSIVE FormatInt(_)
FormatInt(n) ==
    IF n < 10 THEN <<DigitChars[n + 1]>>
    ELSE Append(FormatInt(n \div 10), DigitChars[(n % 10) + 1])

\* A revision id: generation, separator, hash.
Rev(gen, hash) == FormatInt(gen) \o <<"-">> \o hash

\* s.split("-")[0]: the characters before the first separator.
RECURSIVE SplitFirst(_)
SplitFirst(cs) ==
    IF cs = <<>> \/ cs[1] = "-" THEN <<>>
    ELSE <<cs[1]>> \o SplitFirst(Tail(cs))

\* parseInt(s): the value of the leading digits; NaN without one.
RECURSIVE ParseDigits(_, _)
ParseDigits(cs, acc) ==
    IF cs = <<>> \/ ~IsDigit(cs[1]) THEN acc
    ELSE ParseDigits(Tail(cs), acc * 10 + DigitVal(cs[1]))

parseInt(cs) ==
    IF cs = <<>> \/ ~IsDigit(cs[1]) THEN [nan |-> TRUE, val |-> 0]
    ELSE [nan |-> FALSE, val |-> ParseDigits(cs, 0)]

\* The map function with >= for >.
MapFunctionInclusive(d) ==
    LET revGen == parseInt(SplitFirst(d["_rev"].v))
    IN ~revGen.nan /\ revGen.val >= Threshold

\* The map function of the view "high_rev_gen": whether it emits for doc.
\* var revGen = parseInt(doc._rev.split("-")[0]); if (revGen > 100000) emit
MapFunction(d) ==
    LET revGen == parseInt(SplitFirst(d["_rev"].v))
    IN ~revGen.nan /\ revGen.val > Threshold

(***************************************************************************)
(* The CouchDB server of one instance, as the workflow sees it over HTTP.  *)
(* docs: the documents that exist, by id; hist: the revision ids recorded  *)
(* for the target document, newest first; live: the (id, revision) pairs   *)
(* a DELETE ?rev= still finds; design: the design document "rev_filter".   *)
(***************************************************************************)
DBName == "parrott34974"
\* main calls ResetDocument(*dbName, logger): the document id is the name
\* of the database.
DocID == DBName

JRev(cs) == [t |-> "rev", v |-> cs]

Big == <<1>> \o Zeros(MantBits - 1) \o <<1>>
Small == <<1, 0, 1>>

\* The bodies the target document can have (without its revision).
TargetBodies ==
    {[f \in fs |->
        CASE f = "_id" -> JStr(DocID)
          [] f = "title" -> JStr("x")
          [] f = "nested" -> JObj([count |-> JNum(n)])] :
     fs \in {{"_id", "title", "nested"}, {"title", "nested"}}, n \in {Small, Big}}

\* The revision ids recorded for a target document of n revisions.
History(n) == [i \in 1 .. n |-> Rev(n + 1 - i, <<"r">>)]

\* The other documents of the database: id, generation and hash of the
\* current revision, deleted-conflict revisions.
OtherDocs ==
    {[id |-> "a", gen |-> Threshold + 1, hash |-> <<"a", "b", "c">>,
      dc |-> <<Rev(2, <<"a", "a", "a">>), Rev(3, <<"b", "b", "b">>)>>],
     [id |-> "b", gen |-> Threshold, hash |-> <<"x", "y", "z">>,
      dc |-> <<Rev(2, <<"c", "c", "c">>)>>],
     [id |-> "c", gen |-> Threshold + 2, hash |-> <<"q">>, dc |-> <<>>],
     [id |-> "d", gen |-> Threshold + 3, hash |-> <<"e">>,
      dc |-> <<Rev(5, <<"e">>)>>]}

OtherOf(id) == CHOOSE o \in OtherDocs : o.id = id

OtherBody(o) ==
    IF o.dc = <<>>
    THEN [f \in {"_id", "_rev"} |->
            IF f = "_id" THEN JStr(o.id) ELSE JRev(Rev(o.gen, o.hash))]
    ELSE [f \in {"_id", "_rev", "_deleted_conflicts"} |->
            CASE f = "_id" -> JStr(o.id)
              [] f = "_rev" -> JRev(Rev(o.gen, o.hash))
              [] f = "_deleted_conflicts" -> JArr([i \in DOMAIN o.dc |-> JRev(o.dc[i])])]

ConflictPairs(os) == UNION {{<<o.id, o.dc[i]>> : i \in DOMAIN o.dc} : o \in os}

WithRev(body, rev) ==
    [f \in DOMAIN body \cup {"_rev"} |-> IF f = "_rev" THEN JRev(rev) ELSE body[f]]

\* A server with the other documents os, gone of whose conflict revisions
\* are no longer found, and the target document with body b and n recorded
\* revisions of which the current one and those of olderLive are found
\* (n = 0: no target document).
Server(os, gone, b, n, olderLive, des) ==
    [docs |-> [id \in {o.id : o \in os} \cup (IF n = 0 THEN {} ELSE {DocID}) |->
                  IF id = DocID THEN WithRev(b, History(n)[1]) ELSE OtherBody(OtherOf(id))],
     hist |-> History(n),
     live |-> (ConflictPairs(os) \ gone)
              \cup {<<DocID, History(n)[i]>> : i \in ({1} \cup olderLive) \cap (1 .. n)},
     design |-> des,
     compactions |-> 0]

\* The sets of other documents the database starts with.
Databases ==
    {{o \in OtherDocs : o.id \in ids} :
        ids \in {{}, {"b"}, {"a", "b"}, {"a", "c", "d"}, {"a", "b", "c", "d"}}}

\* The conflict revisions that are already gone when the run starts: none,
\* the last one of "a", or the one of "d".
GoneSets == {{}, {<<"a", OtherOf("a").dc[2]>>}, {<<"d", OtherOf("d").dc[1]>>}}

ServerInit ==
    {Server(os, gone, b, n, ol, des) :
        os \in Databases, gone \in GoneSets,
        b \in TargetBodies, n \in 0 .. MaxRevs, ol \in SUBSET (2 .. MaxRevs),
        des \in {"none", "old"}}

ErrBody(status) ==
    [f \in {"error", "reason"} |->
        IF f = "error"
        THEN JStr(CASE status = 404 -> "not_found"
                    [] status = 409 -> "conflict"
                    [] status = 0 -> "connection refused"
                    [] OTHER -> "unknown_error")
        ELSE JStr("missing")]

OkBody == [f \in {"ok"} |-> JStr("true")]

\* The request is not served: the server answers 500, or the connection
\* fails (status 0: the client gets an error and no response).
Faults(s) ==
    {[status |-> 500, body |-> ErrBody(500), srv |-> s],
     [status |-> 0, body |-> ErrBody(0), srv |-> s]}

RemoveDoc(s, id) ==
    [s EXCEPT !.docs = [x \in DOMAIN s.docs \ {id} |-> s.docs[x]],
              !.live = s.live \ {<<id, s.docs[id]["_rev"].v>>}]

\* GET /db/id
ServeGetDoc(s, id) ==
    {IF id \in DOMAIN s.docs
     THEN [status |-> 200, body |-> s.docs[id], srv |-> s]
     ELSE [status |-> 404, body |-> ErrBody(404), srv |-> s]} \cup Faults(s)

\* GET /db/id?revs_info=true
ServeGetRevs(s, id) ==
    {IF id \in DOMAIN s.docs
     THEN [status |-> 200,
           body |-> [f \in DOMAIN s.docs[id] \cup {"_revs_info"} |->
                       IF f = "_revs_info"
                       THEN JArr([i \in DOMAIN s.hist |-> JObj([rev |-> JRev(s.hist[i])])])
                       ELSE s.docs[id][f]],
           srv |-> s]
     ELSE [status |-> 404, body |-> ErrBody(404), srv |-> s]} \cup Faults(s)

\* DELETE /db/id?rev=rev
ServeDeleteRev(s, id, rev) ==
    {IF <<id, rev>> \in s.live
     THEN [status |-> 200, body |-> OkBody,
           srv |-> IF id \in DOMAIN s.docs /\ s.docs[id]["_rev"].v = rev
                   THEN RemoveDoc(s, id)
                   ELSE [s EXCEPT !.live = s.live \ {<<id, rev>>}]]
     ELSE [status |-> 404, body |-> ErrBody(404), srv |-> s]} \cup Faults(s)

\* DELETE /db/id
ServeDeleteDoc(s, id) ==
    {IF id \in DOMAIN s.docs
     THEN [status |-> 200, body |-> OkBody, srv |-> RemoveDoc(s, id)]
     ELSE [status |-> 404, body |-> ErrBody(404), srv |-> s]} \cup Faults(s)

\* The first revision of a document created at an id that has none.
FirstRev == Rev(1, <<"n">>)

\* PUT /db/id with a JSON body
ServePutDoc(s, id, body) ==
    {IF id \in DOMAIN s.docs \/ "_rev" \in DOMAIN body
     THEN [status |-> 409, body |-> ErrBody(409), srv |-> s]
     ELSE [status |-> 201, body |-> OkBody,
           srv |-> [s EXCEPT
                      !.docs = [x \in DOMAIN s.docs \cup {id} |->
                                   IF x = id THEN WithRev(body, FirstRev) ELSE s.docs[x]],
                      !.hist = <<FirstRev>> \o s.hist,
                      !.live = s.live \cup {<<id, FirstRev>>}]]} \cup Faults(s)

DesignRev == Rev(1, <<"d">>)

\* GET /db/_design/rev_filter
ServeGetDesign(s) ==
    {IF s.design # "none"
     THEN [status |-> 200,
           body |-> [f \in {"_id", "_rev"} |->
                       IF f = "_id" THEN JStr("_design/rev_filter") ELSE JRev(DesignRev)],
           srv |-> s]
     ELSE [status |-> 404, body |-> ErrBody(404), srv |-> s]} \cup Faults(s)

\* DELETE /db/_design/rev_filter?rev=rev
ServeDeleteDesign(s, rev) ==
    {IF s.design # "none" /\ rev = DesignRev
     THEN [status |-> 200, body |-> OkBody, srv |-> [s EXCEPT !.design = "none"]]
     ELSE [status |-> 404, body |-> ErrBody(404), srv |-> s]} \cup Faults(s)

\* PUT /db/_design/rev_filter
ServePutDesign(s) ==
    {IF s.design = "none"
     THEN [status |-> 201, body |-> OkBody, srv |-> [s EXCEPT !.design = "installed"]]
     ELSE [status |-> 409, body |-> ErrBody(409), srv |-> s]} \cup Faults(s)

\* The ids of the database in the order of the view's keys.
IdOrder == <<"a", "b", "c", "d", DocID>>

\* The rows of the view: one per document the map function emits for,
\* emit(doc._id, doc).
ViewRows(s) ==
    LET Emitted(id) == id \in DOMAIN s.docs /\ "_rev" \in DOMAIN s.docs[id] /\ MapFunction(s.docs[id])
        ids == SelectSeq(IdOrder, Emitted)
    IN [i \in DOMAIN ids |->
          JObj([id |-> JStr(ids[i]), key |-> JStr(ids[i]), value |-> JObj(s.docs[ids[i]])])]

\* GET /db/_design/rev_filter/_view/high_rev_gen
ServeView(s) ==
    {IF s.design # "none"
     THEN [status |-> 200, body |-> [f \in {"rows"} |-> JArr(ViewRows(s))], srv |-> s]
     ELSE [status |-> 404, body |-> ErrBody(404), srv |-> s]} \cup Faults(s)

\* POST /db/_compact
ServeCompact(s) ==
    {[status |-> 202, body |-> OkBody, srv |-> [s EXCEPT !.compactions = @ + 1]],
     [status |-> 200, body |-> OkBody, srv |-> s]} \cup Faults(s)

(***************************************************************************)
(* The workflow: main's loop over the instances, ResetDocument and the     *)
(* design-document, query, conflict and compaction steps.  reqs records    *)
(* the requests issued to the current instance with the status answered.   *)
(***************************************************************************)
DesignID == "_design/rev_filter"

Req(step, op, id, rev, status) ==
    [step |-> step, op |-> op, id |-> id, rev |-> rev, status |-> status]

\* string(body) as the error messages quote it.
BodyText(b) == IF "error" \in DOMAIN b THEN <<b["error"].v, b["reason"].v>> ELSE <<"ok">>

\* The error of net/http for a request without response: it names the
\* method and the URL.
NetErr(op, id) == <<op, DBName, id, "connection refused">>

\* strings.Contains(err.Error(), sub)
StringsContains(msg, sub) == \E i \in DOMAIN msg : msg[i] = sub

\* A check that takes no error for a not-found.
IsNotFoundNever(err) == FALSE

\* strings.Contains(err.Error(), "not_found")
IsNotFound(err) == StringsContains(err, "not_found")

\* The error DeleteDocumentRevision returns for the response r (<<>>: nil).
DeleteDocumentRevisionErr(r, id) ==
    IF r.status = 0 THEN NetErr("Delete", id)
    ELSE IF r.status # 200 THEN <<"failed to delete document revision">> \o BodyText(r.body)
    ELSE <<>>

\* A Fatalf that logs msg and lets the caller go on at the step it is at.
FatalfLogsOnly(msg) ==
    /\ mpc' = mpc
    /\ fatalMsg' = msg

\* logger.Fatalf(msg): the process exits.
Fatalf(msg) ==
    /\ mpc' = "fatal"
    /\ fatalMsg' = msg

\* ResetDocument returns fmt.Errorf(step + ": %v", err), which main logs.
ResetFails(step, err) == Fatalf(<<"Failed to reset document", step>> \o err)

Continue(next) ==
    /\ mpc' = next
    /\ fatalMsg' = fatalMsg

mainVars == <<nInst, inst, completed, before, hostVars, scanVars>>

\* for _, ip := range foundIPs { client := couchdb.NewCouchDBClient(...)
MainNextInstance ==
    /\ mpc = "range"
    /\ inst < nInst
    /\ inst' = inst + 1
    /\ srv' \in ServerInit
    /\ before' = srv'
    /\ mpc' = "GetDocument"
    /\ reqs' = <<>>
    /\ doc' = NoMap
    /\ fetched' = NoMap
    /\ revisions' = <<>>
    /\ ri' = 0
    /\ rows' = <<>>
    /\ rowi' = 0
    /\ ci' = 0
    /\ UNCHANGED <<nInst, completed, fatalMsg, hostVars, scanVars, callVars>>

\* The loop is over (or foundIPs is empty): "Scan completed successfully."
MainDone ==
    /\ mpc = "range"
    /\ inst >= nInst
    /\ mpc' = "done"
    /\ UNCHANGED <<srv, clientVars, reqs, fatalMsg, fetched, mainVars, callVars>>

\* doc, err := c.GetDocument(docID)
GetDocument ==
    /\ mpc = "GetDocument"
    /\ \E r \in ServeGetDoc(srv, DocID) :
        /\ reqs' = Append(reqs, Req(1, "GET", DocID, <<>>, r.status))
        /\ srv' = r.srv
        /\ IF r.status = 0
           THEN ResetFails("failed to fetch document", NetErr("Get", DocID))
                /\ UNCHANGED <<doc, fetched>>
           ELSE IF r.status # 200
           THEN ResetFails("failed to fetch document",
                           <<"failed to fetch document">> \o BodyText(r.body))
                /\ UNCHANGED <<doc, fetched>>
           ELSE /\ doc' = UnmarshalMap(r.body)
                /\ fetched' = r.body
                /\ Continue("GetAllRevisions")
    /\ UNCHANGED <<revisions, ri, rows, rowi, ci, mainVars, callVars>>

\* The revision ids of _revs_info, last entry of the response first.
RevsInfoReversed(body) ==
    LET info == body["_revs_info"].v
    IN [i \in DOMAIN info |-> info[Len(info) + 1 - i].v["rev"].v]

\* The revision ids of _revs_info, in the order of the response.
RevsInfo(body) ==
    [i \in DOMAIN body["_revs_info"].v |-> body["_revs_info"].v[i].v["rev"].v]

\* revisions, err := c.GetAllRevisions(docID)
GetAllRevisions ==
    /\ mpc = "GetAllRevisions"
    /\ \E r \in ServeGetRevs(srv, DocID) :
        /\ reqs' = Append(reqs, Req(2, "GET", DocID, <<>>, r.status))
        /\ srv' = r.srv
        /\ IF r.status = 0
           THEN ResetFails("failed to get revisions", NetErr("Get", DocID))
                /\ UNCHANGED <<revisions, ri>>
           ELSE IF r.status # 200
           THEN ResetFails("failed to get revisions",
                           <<"failed to fetch document revisions">> \o BodyText(r.body))
                /\ UNCHANGED <<revisions, ri>>
           ELSE /\ revisions' = RevsInfo(r.body)
                /\ ri' = 1
                /\ Continue("DeleteAllRevisions")
    /\ UNCHANGED <<doc, fetched, rows, rowi, ci, mainVars, callVars>>

\* DeleteAllRevisions, one iteration: resp, err := c.DeleteDocumentRevision(docID, rev)
DeleteRevision ==
    /\ mpc = "DeleteAllRevisions"
    /\ ri <= Len(revisions)
    /\ \E r \in ServeDeleteRev(srv, DocID, revisions[ri]) :
        /\ reqs' = Append(reqs, Req(3, "DELETE", DocID, revisions[ri], r.status))
        /\ srv' = r.srv
        /\ LET err == DeleteDocumentRevisionErr(r, DocID)
           IN IF err = <<>> \/ IsNotFound(err)
              THEN ri' = ri + 1 /\ Continue("DeleteAllRevisions")
              ELSE ResetFails("failed to delete all revisions",
                              <<"failed to delete revision">> \o err)
                   /\ UNCHANGED ri
    /\ UNCHANGED <<doc, fetched, revisions, rows, rowi, ci, mainVars, callVars>>

\* DeleteAllRevisions: the loop is over, return nil
DeleteAllRevisionsReturn ==
    /\ mpc = "DeleteAllRevisions"
    /\ ri > Len(revisions)
    /\ Continue("DeleteDocument")
    /\ UNCHANGED <<srv, clientVars, reqs, fetched, mainVars, callVars>>

\* err = c.DeleteDocument(docID)
DeleteDocument ==
    /\ mpc = "DeleteDocument"
    /\ \E r \in ServeDeleteDoc(srv, DocID) :
        /\ reqs' = Append(reqs, Req(4, "DELETE", DocID, <<>>, r.status))
        /\ srv' = r.srv
        /\ IF r.status = 0
           THEN ResetFails("failed to delete document", NetErr("Delete", DocID))
           ELSE IF r.status # 200 /\ r.status # 404
           THEN ResetFails("failed to delete document",
                           <<"failed to delete document">> \o BodyText(r.body))
           ELSE Continue("CreateDocument")
    /\ UNCHANGED <<clientVars, fetched, mainVars, callVars>>

\* doc["_id"].(string) on a body without "_id": the type assertion panics.
CreateDocumentPanic ==
    /\ mpc = "CreateDocument"
    /\ "_id" \notin DOMAIN doc
    /\ mpc' = "panic"
    /\ UNCHANGED <<srv, clientVars, reqs, fatalMsg, fetched, mainVars, callVars>>

\* The body CreateDocument sends: delete(doc, "_rev"); json.Marshal(doc)
CreateBody(d) == MarshalMap(Without(d, "_rev"))

\* err = c.CreateDocument(doc)
CreateDocument ==
    /\ mpc = "CreateDocument"
    /\ "_id" \in DOMAIN doc
    /\ doc' = Without(doc, "_rev")
    /\ \E r \in ServePutDoc(srv, doc["_id"].v, CreateBody(doc)) :
        /\ reqs' = Append(reqs, Req(5, "PUT", doc["_id"].v, <<>>, r.status))
        /\ srv' = r.srv
        /\ IF r.status = 0
           THEN ResetFails("failed to recreate document", NetErr("Put", DocID))
           ELSE IF r.status # 201
           THEN ResetFails("failed to recreate document",
                           <<"failed to create document">> \o BodyText(r.body))
           ELSE Continue("CheckAndDeleteDesignDocument")
    /\ UNCHANGED <<fetched, revisions, ri, rows, rowi, ci, mainVars, callVars>>

\* An existence check that also takes a found design document for absent.
DesignDocAbsentOrFound(status) == status \in {404, 200}

\* if resp.StatusCode == http.StatusNotFound: nothing to delete
DesignDocAbsent(status) == status = 404

CheckFails(err) ==
    Fatalf(<<"Failed to check and delete existing design document">> \o err)

\* deleteMsg, err := client.CheckAndDeleteDesignDocument("rev_filter")
CheckAndDeleteDesignDocument ==
    /\ mpc = "CheckAndDeleteDesignDocument"
    /\ \E r \in ServeGetDesign(srv) :
        LET get == Req(6, "GET", DesignID, <<>>, r.status)
        IN IF r.status = 0
           THEN /\ reqs' = Append(reqs, get)
                /\ srv' = r.srv
                /\ CheckFails(NetErr("Get", DesignID))
           ELSE IF DesignDocAbsent(r.status)
           THEN /\ reqs' = Append(reqs, get)
                /\ srv' = r.srv
                /\ Continue("CreateDesignDocument")
           ELSE IF r.status # 200
           THEN /\ reqs' = Append(reqs, get)
                /\ srv' = r.srv
                /\ CheckFails(<<"failed to fetch design document">> \o BodyText(r.body))
           ELSE \E d \in ServeDeleteDesign(r.srv, r.body["_rev"].v) :
                /\ reqs' = reqs \o <<get, Req(6, "DELETE", DesignID, r.body["_rev"].v, d.status)>>
                /\ srv' = d.srv
                /\ IF d.status = 0
                   THEN CheckFails(NetErr("Delete", DesignID))
                   ELSE IF d.status # 200
                   THEN CheckFails(<<"failed to delete design document">> \o BodyText(d.body))
                   ELSE Continue("CreateDesignDocument")
    /\ UNCHANGED <<clientVars, fetched, mainVars, callVars>>

\* response, err := client.CreateDesignDocument("rev_filter", designDoc):
\* the status of the response is not looked at.
CreateDesignDocument ==
    /\ mpc = "CreateDesignDocument"
    /\ \E r \in ServePutDesign(srv) :
        /\ reqs' = Append(reqs, Req(7, "PUT", DesignID, <<>>, r.status))
        /\ srv' = r.srv
        /\ IF r.status = 0
           THEN Fatalf(<<"Failed to create design document">> \o NetErr("Put", DesignID))
           ELSE Continue("QueryDesignDocument")
    /\ UNCHANGED <<clientVars, fetched, mainVars, callVars>>

\* Document with the conflicts read from the member "_conflicts".
DocumentOtherTag(v) ==
    [ID |-> IF "_id" \in DOMAIN v THEN v["_id"].v ELSE "",
     Rev |-> IF "_rev" \in DOMAIN v THEN v["_rev"].v ELSE <<>>,
     DeletedConflicts |->
        IF "_conflicts" \in DOMAIN v
        THEN [i \in DOMAIN v["_conflicts"].v |-> v["_conflicts"].v[i].v]
        ELSE <<>>]

\* json.Unmarshal of one row's value into Document
Document(v) ==
    [ID |-> IF "_id" \in DOMAIN v THEN v["_id"].v ELSE "",
     Rev |-> IF "_rev" \in DOMAIN v THEN v["_rev"].v ELSE <<>>,
     DeletedConflicts |->
        IF "_deleted_conflicts" \in DOMAIN v
        THEN [i \in DOMAIN v["_deleted_conflicts"].v |-> v["_deleted_conflicts"].v[i].v]
        ELSE <<>>]

\* json.Unmarshal(queryResponse, &response): response.Rows
QueryRows(body) ==
    IF "rows" \in DOMAIN body
    THEN [i \in DOMAIN body["rows"].v |->
            LET row == body["rows"].v[i].v
            IN [ID |-> row["id"].v, Key |-> row["key"].v, Value |-> Document(row["value"].v)]]
    ELSE <<>>

\* queryResp, err := client.QueryDesignDocument("rev_filter"): the status
\* of the response is not looked at; HandleQueryResponse decodes the body.
QueryDesignDocument ==
    /\ mpc = "QueryDesignDocument"
    /\ \E r \in ServeView(srv) :
        /\ reqs' = Append(reqs, Req(8, "GET", DesignID, <<>>, r.status))
        /\ srv' = r.srv
        /\ IF r.status = 0
           THEN Fatalf(<<"Failed to query design document">> \o NetErr("Get", DesignID))
                /\ UNCHANGED <<rows, rowi, ci>>
           ELSE /\ rows' = QueryRows(r.body)
                /\ rowi' = 1
                /\ ci' = 1
                /\ Continue("HandleQueryResponse")
    /\ UNCHANGED <<doc, fetched, revisions, ri, mainVars, callVars>>

\* doc := row.Value: the document id the conflict deletes go to.
ConflictTarget(row) == row.Value.ID

\* HandleQueryResponse, one conflict revision:
\* deleteResp, err := c.DeleteDocumentRevision(doc.ID, conflictRev)
DeleteConflict ==
    /\ mpc = "HandleQueryResponse"
    /\ rowi <= Len(rows)
    /\ ci <= Len(rows[rowi].Value.DeletedConflicts)
    /\ LET id == ConflictTarget(rows[rowi])
           rev == rows[rowi].Value.DeletedConflicts[ci]
       IN \E r \in ServeDeleteRev(srv, id, rev) :
            /\ reqs' = Append(reqs, Req(9, "DELETE", id, rev, r.status))
            /\ srv' = r.srv
            /\ LET err == DeleteDocumentRevisionErr(r, id)
               IN IF err # <<>>
                  THEN Fatalf(<<"Failed to handle query response",
                                "failed to delete conflict for document", id>> \o err)
                       /\ UNCHANGED ci
                  ELSE ci' = ci + 1 /\ Continue("HandleQueryResponse")
    /\ UNCHANGED <<doc, fetched, revisions, ri, rows, rowi, mainVars, callVars>>

\* HandleQueryResponse: the conflicts of the row are done, next row
NextRow ==
    /\ mpc = "HandleQueryResponse"
    /\ rowi <= Len(rows)
    /\ ci > Len(rows[rowi].Value.DeletedConflicts)
    /\ rowi' = rowi + 1
    /\ ci' = 1
    /\ UNCHANGED <<mpc, srv, doc, fetched, revisions, ri, rows, reqs, fatalMsg, mainVars, callVars>>

\* HandleQueryResponse: return nil
HandleQueryResponseReturn ==
    /\ mpc = "HandleQueryResponse"
    /\ rowi > Len(rows)
    /\ Continue("CompactDatabase")
    /\ UNCHANGED <<srv, clientVars, reqs, fetched, mainVars, callVars>>

\* A check that takes every 2xx answer for the start of the compaction.
CompactionAnySuccess(status) == status \in {200, 202}

\* resp.StatusCode != http.StatusAccepted is an error
CompactionAccepted(status) == status = 202

\* compactResp, err := client.CompactDatabase()
CompactDatabase ==
    /\ mpc = "CompactDatabase"
    /\ \E r \in ServeCompact(srv) :
        /\ reqs' = Append(reqs, Req(10, "POST", "_compact", <<>>, r.status))
        /\ srv' = r.srv
        /\ IF r.status = 0
           THEN Fatalf(<<"Failed to compact database">> \o NetErr("Post", "_compact"))
                /\ UNCHANGED completed
           ELSE IF ~CompactionAccepted(r.status)
           THEN Fatalf(<<"Failed to compact database", "failed to trigger compaction">>
                       \o BodyText(r.body))
                /\ UNCHANGED completed
           ELSE /\ completed' = completed + 1
                /\ Continue("range")
    /\ UNCHANGED <<clientVars, fetched, nInst, inst, before, hostVars, scanVars, callVars>>

InitFlow ==
    /\ cidr = BadCIDR
    /\ HostsIdle
    /\ spc = "none"
    /\ ScanIdle
    /\ mpc = "range"
    /\ nInst \in {0, MaxInst}
    /\ inst = 0
    /\ srv = NoServer
    /\ doc = NoMap
    /\ revisions = <<>>
    /\ ri = 0
    /\ rows = <<>>
    /\ rowi = 0
    /\ ci = 0
    /\ reqs = <<>>
    /\ fatalMsg = <<>>
    /\ completed = 0
    /\ fetched = NoMap
    /\ before = NoServer
    /\ CallIdle

NextFlow ==
    \/ MainNextInstance
    \/ MainDone
    \/ GetDocument
    \/ GetAllRevisions
    \/ DeleteRevision
    \/ DeleteAllRevisionsReturn
    \/ DeleteDocument
    \/ CreateDocumentPanic
    \/ CreateDocument
    \/ CheckAndDeleteDesignDocument
    \/ CreateDesignDocument
    \/ QueryDesignDocument
    \/ DeleteConflict
    \/ NextRow
    \/ HandleQueryResponseReturn
    \/ CompactDatabase

SpecFlow == InitFlow /\ [][NextFlow]_vars

(***************************************************************************)
(* IsCouchDBRunning: one probe of the address target.  open is the set of  *)
(* connections the probe holds.                                            *)
(***************************************************************************)
\* What net.DialTimeout can come back with: a connection, or an error.
DialOutcomes == {"connected", "timeout", "refused", "unreachable"}

\* A close that leaves the connection open.
ClosedNot(conns, c) == conns

\* conn.Close()
Closed(conns, c) == conns \ {c}

\* conn, err := net.DialTimeout("tcp", net.JoinHostPort(ip, port), timeout)
ProbeDial ==
    /\ ppc = "call"
    /\ \E o \in DialOutcomes :
        /\ dial' = o
        /\ open' = IF o = "connected" THEN open \cup {target} ELSE open
    /\ ppc' = "dialed"
    /\ UNCHANGED <<target, probeRet, restVars, orchVars, hostVars, scanVars, flowVars>>

\* if err != nil { return false }
ProbeReturnFalse ==
    /\ ppc = "dialed"
    /\ dial # "connected"
    /\ probeRet' = "false"
    /\ ppc' = "returned"
    /\ UNCHANGED <<target, dial, open, restVars, orchVars, hostVars, scanVars, flowVars>>

\* conn.Close()
ProbeClose ==
    /\ ppc = "dialed"
    /\ dial = "connected"
    /\ open' = Closed(open, target)
    /\ ppc' = "closed"
    /\ UNCHANGED <<target, dial, probeRet, restVars, orchVars, hostVars, scanVars, flowVars>>

\* return true
ProbeReturnTrue ==
    /\ ppc = "closed"
    /\ probeRet' = "true"
    /\ ppc' = "returned"
    /\ UNCHANGED <<target, dial, open, restVars, orchVars, hostVars, scanVars, flowVars>>

InitProbe ==
    /\ cidr = BadCIDR
    /\ HostsIdle
    /\ spc = "none"
    /\ ScanIdle
    /\ FlowIdle
    /\ RestIdle
    /\ OrchIdle
    /\ ppc = "call"
    /\ target \in Addr
    /\ dial = "none"
    /\ open = {}
    /\ probeRet = "none"

NextProbe ==
    \/ ProbeDial
    \/ ProbeReturnFalse
    \/ ProbeClose
    \/ ProbeReturnTrue

SpecProbe == InitProbe /\ [][NextProbe]_vars

(***************************************************************************)
(* RestClient: one call of Get, Post, Put or Delete.  rresp is what the    *)
(* server answered (status 0: no response), rret what the call returned.   *)
(***************************************************************************)
Methods == {"GET", "POST", "PUT", "DELETE"}
RestStatuses == {200, 201, 202, 204, 400, 404, 500}
RestBodies == {"", "{\"key\": \"value\"}", "error"}

\* The answers to a request: none at all, or a status with a body that
\* ioutil.ReadAll reads to the end (read) or fails on.
RestResponses ==
    {NoResponse} \cup [status : RestStatuses, body : RestBodies, read : BOOLEAN]

RestRequests ==
    {q \in [method : Methods, payloadOK : BOOLEAN] :
        q.method \in {"GET", "DELETE"} => q.payloadOK}

\* The status CouchDB answers a successful request of the method with.
ExpectedStatusOfServer(method) ==
    CASE method = "GET" -> 200
      [] method = "POST" -> 201
      [] method = "PUT" -> 201
      [] method = "DELETE" -> 200

\* The one status each method takes for success: http.StatusOK for Get,
\* Put and Delete, http.StatusCreated for Post.
ExpectedStatus(method) ==
    CASE method = "GET" -> 200
      [] method = "POST" -> 201
      [] method = "PUT" -> 200
      [] method = "DELETE" -> 200

\* errors.New(<text of the method> + resp.Status)
StatusError(method, status) ==
    CASE method = "GET" -> <<"failed to retrieve data from API, status code: ", status>>
      [] method = "POST" -> <<"failed to create resource, status code: ", status>>
      [] method = "PUT" -> <<"failed to update resource, status code: ", status>>
      [] method = "DELETE" -> <<"failed to delete resource, status code: ", status>>

\* What Get, Post and Put return for the answer r.
BodyResult(method, r) ==
    IF r = NoResponse THEN [body |-> NilBytes, err |-> <<"transport">>]
    ELSE IF r.status # ExpectedStatus(method)
    THEN [body |-> NilBytes, err |-> StatusError(method, r.status)]
    ELSE IF ~r.read THEN [body |-> NilBytes, err |-> <<"read">>]
    ELSE [body |-> Bytes(r.body), err |-> NoErr]

\* What Delete returns for the answer r: the body is not read.
DeleteResult(r) ==
    IF r = NoResponse THEN [body |-> NilBytes, err |-> <<"transport">>]
    ELSE IF r.status # ExpectedStatus("DELETE")
    THEN [body |-> NilBytes, err |-> StatusError("DELETE", r.status)]
    ELSE [body |-> NilBytes, err |-> NoErr]

RestReturn(r, ret) ==
    /\ rresp' = r
    /\ rret' = ret
    /\ rpc' = "returned"
    /\ UNCHANGED <<rreq, probeVars, orchVars, hostVars, scanVars, flowVars>>

\* json.Marshal(payload) fails: return nil, err before any request.
RestMarshalError ==
    /\ rpc = "call"
    /\ ~rreq.payloadOK
    /\ RestReturn(NoResponse, [body |-> NilBytes, err |-> <<"marshal">>])

\* func (rc *RestClient) Get(url string) ([]byte, error)
RestGet ==
    /\ rpc = "call"
    /\ rreq.method = "GET"
    /\ \E r \in RestResponses : RestReturn(r, BodyResult("GET", r))

\* func (rc *RestClient) Post(url string, payload interface{}) ([]byte, error)
RestPost ==
    /\ rpc = "call"
    /\ rreq.method = "POST"
    /\ rreq.payloadOK
    /\ \E r \in RestResponses : RestReturn(r, BodyResult("POST", r))

\* func (rc *RestClient) Put(url string, payload interface{}) ([]byte, error)
RestPut ==
    /\ rpc = "call"
    /\ rreq.method = "PUT"
    /\ rreq.payloadOK
    /\ \E r \in RestResponses : RestReturn(r, BodyResult("PUT", r))

\* func (rc *RestClient) Delete(url string) error
RestDelete ==
    /\ rpc = "call"
    /\ rreq.method = "DELETE"
    /\ \E r \in RestResponses : RestReturn(r, DeleteResult(r))

InitRest ==
    /\ cidr = BadCIDR
    /\ HostsIdle
    /\ spc = "none"
    /\ ScanIdle
    /\ FlowIdle
    /\ ProbeIdle
    /\ OrchIdle
    /\ rpc = "call"
    /\ rreq \in RestRequests
    /\ rresp = NoResponse
    /\ rret = NoReturn

NextRest ==
    \/ RestMarshalError
    \/ RestGet
    \/ RestPost
    \/ RestPut
    \/ RestDelete

SpecRest == InitRest /\ [][NextRest]_vars

(***************************************************************************)
(* Claims on Hosts and ScanNetwork                                         *)
(***************************************************************************)
Range(s) == {s[i] : i \in DOMAIN s}
Count(s, x) == Cardinality({i \in DOMAIN s : s[i] = x})
BlockSize(c) == Pow2(AddrBits - c.prefix)
NetInt(c) == ToInt(ParseCIDR(c).IP)

\* The addresses of the block other than its first and its last one.
Interior(c) == {a \in BlockAddrs(c) : NetInt(c) < ToInt(a) /\ ToInt(a) < NetInt(c) + BlockSize(c) - 1}

HostsEnded == hpc \in {"returned", "panic", "oom", "error"}

C3_JoinBarrier ==
    spc = "returned" =>
        /\ Len(tasks) = Len(hostsRet)
        /\ \A t \in DOMAIN tasks : tasks[t].pc = "done"
        /\ foundIPs = scanRet

C3_Witness ==
    /\ spc = "returned"
    /\ Len(tasks) = 2
    /\ Len(scanRet) = 1

\* C4: for a prefix length of at most AddrBits - 2, Hosts returns, in
\* ascending order, exactly the addresses of the block other than the
\* first and the last one, 2^(AddrBits - prefix) - 2 of them.
C4_HostsInterior ==
    (HostsEnded /\ cidr.ok /\ cidr.prefix <= AddrBits - 2) =>
        /\ hpc = "returned"
        /\ Len(hostsRet) = BlockSize(cidr) - 2
        /\ \A i \in DOMAIN hostsRet : ToInt(hostsRet[i]) = NetInt(cidr) + i

\* C5: for the prefix lengths AddrBits - 1 and AddrBits, Hosts returns an
\* empty sequence and does not fail.
C5_HostsSmallBlocks ==
    (HostsEnded /\ cidr.ok /\ cidr.prefix >= AddrBits - 1) =>
        /\ hpc = "returned"
        /\ hostsRet = <<>>

(***************************************************************************)
(* Claims on the workflow                                                  *)
(***************************************************************************)
\* The requests of step n issued to the current instance, in order.
StepReqs(n) == SelectSeq(reqs, LAMBDA q : q.step = n)

\* The server did not do what the request asked: no response, or an error
\* status other than a not-found answer to a delete or to the existence
\* check of step 6; for the compaction, any status but 202.
Refused(q) ==
    \/ q.status = 0
    \/ q.status >= 400 /\ ~(q.status = 404 /\ (q.op = "DELETE" \/ q.step = 6))
    \/ q.step = 10 /\ q.status # 202

\* The steps that issue a request whatever the data.
EveryRunSteps == {1, 2, 4, 5, 6, 7, 8, 10}

\* C1: the requests to an instance are issued in the order of the ten
\* steps, a request of step n only after the requests of the steps before
\* it, and no request of a later step follows a request that failed.
C1_StepsInOrder ==
    \A j \in DOMAIN reqs :
        /\ \A i \in 1 .. (j - 1) :
            /\ reqs[i].step <= reqs[j].step
            /\ Refused(reqs[i]) => reqs[j].step <= reqs[i].step
        /\ \A m \in EveryRunSteps :
            m < reqs[j].step => \E i \in 1 .. (j - 1) : reqs[i].step = m

\* C6: DeleteAllRevisions issues its deletes for the revisions of the list
\* in order; after a not-found answer the loop goes on to the next
\* revision; it returns an error only after an answer that is neither a
\* success nor a not-found, and returns success after a delete per revision.
C6_NotFoundContinues ==
    LET d == StepReqs(3)
    IN /\ Len(d) <= Len(revisions)
       /\ \A i \in DOMAIN d : d[i].id = DocID /\ d[i].rev = revisions[i]
       /\ \A i \in DOMAIN d :
            (d[i].status = 404 /\ i < Len(revisions)) =>
                (Len(d) > i \/ (mpc = "DeleteAllRevisions" /\ ri = i + 1))
       /\ (mpc = "fatal" /\ reqs # <<>> /\ reqs[Len(reqs)].step = 3) =>
            reqs[Len(reqs)].status \notin {200, 404}
       /\ mpc = "DeleteDocument" => Len(d) = Len(revisions)

\* DeleteAllRevisions has returned success although a delete before the
\* last one was answered not-found, and the delete after it was issued.
C6_Witness ==
    /\ mpc = "DeleteDocument"
    /\ \E i \in DOMAIN StepReqs(3) :
        /\ i < Len(StepReqs(3))
        /\ StepReqs(3)[i].status = 404
        /\ StepReqs(3)[i + 1].status = 200

\* C7: no run halts on a not-found answer to a delete request, whichever
\* step issued the delete.
C7_DeleteNotFoundIsSuccess ==
    \A i \in DOMAIN reqs :
        (reqs[i].op = "DELETE" /\ reqs[i].status = 404) =>
            ~(mpc = "fatal" /\ i = Len(reqs))

\* The deleted-conflict revisions of the rows of a view response, in row
\* and list order, each with the id of its row.
RECURSIVE RowConflicts(_)
RowConflicts(rs) ==
    IF rs = <<>> THEN <<>>
    ELSE LET row == rs[1].v
             val == row["value"].v
         IN (IF "_deleted_conflicts" \in DOMAIN val
             THEN [i \in DOMAIN val["_deleted_conflicts"].v |->
                     <<row["id"].v, val["_deleted_conflicts"].v[i].v>>]
             ELSE <<>>) \o RowConflicts(Tail(rs))

\* What the server answered to the query of step 8.
Answered == IF StepReqs(8) # <<>> /\ StepReqs(8)[1].status = 200
            THEN RowConflicts(ViewRows(srv)) ELSE <<>>

\* C8: the conflict deletes are the deleted-conflict revisions of the rows
\* in row and list order, one delete each, against the id of the row; only
\* the last one can have failed, the run has then halted with an error that
\* names the document id, and once the step is over every one was issued.
C8_ConflictDeletes ==
    LET d == StepReqs(9)
    IN /\ Len(d) <= Len(Answered)
       /\ \A i \in DOMAIN d : d[i].op = "DELETE" /\ <<d[i].id, d[i].rev>> = Answered[i]
       /\ \A i \in DOMAIN d :
            d[i].status # 200 =>
                (i = Len(d) /\ mpc = "fatal" /\ StringsContains(fatalMsg, d[i].id))
       /\ (mpc = "CompactDatabase" \/ StepReqs(10) # <<>>) => Len(d) = Len(Answered)

\* The second conflict delete failed and the conflict of a later row was
\* never asked to be deleted.
C8_Witness ==
    /\ mpc = "fatal"
    /\ Len(StepReqs(9)) = 2
    /\ StepReqs(9)[1].status = 200
    /\ StepReqs(9)[2].status # 200
    /\ Len(Answered) = 3

\* C9: when ResetDocument has returned success, the document exists at its
\* id, its body is the body fetched in step 1 without the revision field,
\* its revision is a first revision that was not recorded before, and no
\* revision recorded before is found any more.
C9_ResetRoundTrip ==
    mpc = "CheckAndDeleteDesignDocument" =>
        /\ DocID \in DOMAIN srv.docs
        /\ Without(srv.docs[DocID], "_rev") = Without(fetched, "_rev")
        /\ parseInt(SplitFirst(srv.docs[DocID]["_rev"].v)) = [nan |-> FALSE, val |-> 1]
        /\ \A i \in DOMAIN before.hist :
            /\ before.hist[i] # srv.docs[DocID]["_rev"].v
            /\ <<DocID, before.hist[i]>> \notin srv.live

\* C10: in the rows of the installed view there is a row for a document
\* exactly if the generation of its current revision is above 100000.
C10_IndexBoundary ==
    (mpc = "HandleQueryResponse" /\ StepReqs(8)[1].status = 200) =>
        /\ \A o \in OtherDocs :
            o.id \in DOMAIN srv.docs =>
                ((\E i \in DOMAIN rows : rows[i].ID = o.id) <=> o.gen > 100000)
        /\ \A i \in DOMAIN rows : rows[i].ID # DocID

\* The database holds the document at generation 100001 and the one at
\* generation 100000; the view has a row for the first and none for the
\* second.
C10_Witness ==
    /\ mpc = "HandleQueryResponse"
    /\ StepReqs(8)[1].status = 200
    /\ {"a", "b"} \subseteq DOMAIN srv.docs
    /\ \E i \in DOMAIN rows : rows[i].ID = "a"
    /\ \A i \in DOMAIN rows : rows[i].ID # "b"

\* C11: step 6 never halts the workflow: no run ends in a failure right
\* after a request of step 6, whatever the server answered to it.
C11_ClearIndexNeverFails ==
    ~(mpc = "fatal" /\ reqs # <<>> /\ reqs[Len(reqs)].step = 6)

\* C12: when the request of step 7 is about to be issued the server holds
\* no design document of the name; one that existed before the run was
\* deleted by the DELETE of step 6 of this run.
C12_NoUpdateInPlace ==
    mpc = "CreateDesignDocument" =>
        /\ srv.design = "none"
        /\ before.design # "none" =>
            \E i \in DOMAIN StepReqs(6) :
                StepReqs(6)[i].op = "DELETE" /\ StepReqs(6)[i].status = 200

\* The instance held the design document before the run and step 6 has
\* deleted it.
C12_Witness ==
    /\ mpc = "CreateDesignDocument"
    /\ before.design # "none"
    /\ Len(StepReqs(6)) = 2

\* C13: the run completes the instance after the compaction request
\* exactly if the answer was 202; after any other answer, 200 included, or
\* no answer, it has halted with the compaction failure.
C13_CompactOnlyOnAccepted ==
    \A i \in DOMAIN StepReqs(10) :
        /\ Len(StepReqs(10)) = 1
        /\ StepReqs(10)[i].status = 202 => (mpc \in {"range", "done"} /\ completed = inst)
        /\ StepReqs(10)[i].status # 202 =>
            /\ mpc = "fatal"
            /\ completed = inst - 1
            /\ fatalMsg[1] = "Failed to compact database"

\* The server answered the compaction request with 200 and the run halted.
C13_Witness ==
    /\ StepReqs(10) # <<>>
    /\ StepReqs(10)[1].status = 200
    /\ mpc = "fatal"

\* C14: for a block that does not parse, ScanNetwork launches no probe
\* task, never returns a result to its caller, and ends in the fatal exit
\* once Hosts has returned its error.
C14_ParseFailureFatal ==
    ~cidr.ok =>
        /\ tasks = <<>>
        /\ foundIPs = <<>>
        /\ scanRet = <<>>
        /\ spc \in {"hosts", "fatal"}
        /\ hpc \in {"call", "error"}

\* The block did not parse and the scan has ended in the fatal exit.
C14_Witness ==
    /\ ~cidr.ok
    /\ hpc = "error"
    /\ spc = "fatal"

(***************************************************************************)
(* Claims on IsCouchDBRunning and RestClient                               *)
(***************************************************************************)
\* C15: a probe returns true after a dial that gave a connection and false
\* after every dial error, and when it has returned it holds no open
\* connection.
C15_ProbeReleasesConnection ==
    /\ ppc \in {"none", "call", "dialed", "closed", "returned"}
    /\ ppc = "returned" =>
        /\ probeRet = (IF dial = "connected" THEN "true" ELSE "false")
        /\ open = {}

\* The dial gave a connection and the probe has returned.
C15_Witness ==
    /\ ppc = "returned"
    /\ dial = "connected"
    /\ probeRet = "true"

\* C19: with the response read to its end, Get returns the body of the
\* response and no error exactly for status 200, Post exactly for 201, Put
\* exactly for 200; Delete returns no error exactly for status 200; for
\* every other status the call returns an error and no body.
C19_RestStatuses ==
    (rpc = "returned" /\ rresp # NoResponse) =>
        LET ok == CASE rreq.method = "GET" -> rresp.status = 200
                    [] rreq.method = "POST" -> rresp.status = 201
                    [] rreq.method = "PUT" -> rresp.status = 200
                    [] rreq.method = "DELETE" -> rresp.status = 200
        IN /\ (ok /\ rresp.read /\ rreq.method # "DELETE") =>
                rret = [body |-> Bytes(rresp.body), err |-> NoErr]
           /\ (ok /\ rreq.method = "DELETE") => rret.err = NoErr
           /\ ~ok => (rret.err # NoErr /\ rret.body = NilBytes)

\* Put was answered 201 and has returned an error and no body.
C19_Witness ==
    /\ rpc = "returned"
    /\ rreq.method = "PUT"
    /\ rresp.status = 201
    /\ rret.err # NoErr

(***************************************************************************)
(* Claims on the run as a whole                                            *)
(***************************************************************************)
\* C16: the loop moves on to the next instance only when every step of the
\* instance before it was issued and none of its requests failed.
C16_InstancesSequential ==
    [][(inst' # inst /\ inst > 0) =>
        /\ completed = inst
        /\ \A m \in EveryRunSteps : StepReqs(m) # <<>>
        /\ \A i \in DOMAIN reqs : ~Refused(reqs[i])]_vars

\* C17: when the fetched body has no "_id" and the run has come to the
\* recreate step, the run halts with the failure of that step, reported as
\* the failures of the other steps are, and no PUT was issued.
C17_NoIdHaltsAtRecreate ==
    (/\ fetched # NoMap
     /\ "_id" \notin DOMAIN fetched
     /\ StepReqs(4) # <<>>
     /\ StepReqs(4)[1].status \in {200, 404}
     /\ mpc # "CreateDocument") =>
        /\ mpc = "fatal"
        /\ fatalMsg[1] = "Failed to reset document"
        /\ fatalMsg[2] = "failed to recreate document"
        /\ StepReqs(5) = <<>>

\* The step names of ResetDocument's errors, by step.
ResetStepNames ==
    <<"failed to fetch document", "failed to get revisions",
      "failed to delete all revisions", "failed to delete document",
      "failed to recreate document">>

\* The step a reported outcome names.
MsgStep(msg) ==
    CASE msg[1] = "Failed to reset document" ->
            CHOOSE n \in DOMAIN ResetStepNames : ResetStepNames[n] = msg[2]
      [] msg[1] = "Failed to check and delete existing design document" -> 6
      [] msg[1] = "Failed to create design document" -> 7
      [] msg[1] = "Failed to query design document" -> 8
      [] msg[1] = "Failed to handle query response" -> 9
      [] msg[1] = "Failed to compact database" -> 10

\* C18: the outcome a halted run has reported names the step of the run's
\* last request and carries a cause, and no request of an earlier step had
\* failed: the step named is the first one that failed.
C18_OutcomeNamesFirstFailure ==
    mpc = "fatal" =>
        /\ Len(fatalMsg) >= 2
        /\ MsgStep(fatalMsg) = reqs[Len(reqs)].step
        /\ \A i \in DOMAIN reqs : Refused(reqs[i]) => reqs[i].step >= MsgStep(fatalMsg)

\* C20: the deletes of step 3 go to the revisions in the order the server
\* listed them at step 2; a delete answered with neither success nor
\* not-found is the last request of the run: no further delete, no request
\* of step 4 or 5, and the run has halted with the failure of step 3.
C20_RevisionDeletesAbort ==
    LET d == StepReqs(3)
    IN /\ (StepReqs(2) # <<>> /\ StepReqs(2)[1].status = 200) => revisions = before.hist
       /\ \A i \in DOMAIN d : d[i].op = "DELETE" /\ d[i].rev = before.hist[i]
       /\ \A i \in DOMAIN d :
            d[i].status \notin {200, 404} =>
                /\ i = Len(d)
                /\ reqs[Len(reqs)] = d[i]
                /\ StepReqs(4) = <<>>
                /\ StepReqs(5) = <<>>
                /\ mpc = "fatal"
                /\ fatalMsg[2] = "failed to delete all revisions"

\* The second of three deletes failed and the third was never issued.
C20_Witness ==
    /\ mpc = "fatal"
    /\ Len(revisions) = 3
    /\ Len(StepReqs(3)) = 2
    /\ StepReqs(3)[1].status = 200
    /\ StepReqs(3)[2].status = 500

\* C21: a request of step 7 or 8 that the server answered with an error
\* status is the last request of the run, and the run has halted.
C21_IndexStatusHalts ==
    \A i \in DOMAIN reqs :
        (reqs[i].step \in {7, 8} /\ reqs[i].status >= 400) =>
            (i = Len(reqs) /\ mpc = "fatal")

\* The steps that issue one request.
SingleRequestSteps == {1, 2, 4, 5, 7, 8, 10}

SameRequest(a, b) == a.step = b.step /\ a.op = b.op /\ a.id = b.id /\ a.rev = b.rev

\* C22: each single-request step has issued at most one request to the
\* instance, and a request that was not answered with a success status is
\* never issued a second time.
C22_NoRetries ==
    /\ \A m \in SingleRequestSteps : Len(StepReqs(m)) <= 1
    /\ \A i \in DOMAIN reqs : \A j \in DOMAIN reqs :
        (i < j /\ reqs[i].status \notin {200, 201, 202}) => ~SameRequest(reqs[i], reqs[j])

\* A request was answered 500 and the run has issued further requests.
C22_Witness ==
    \E i \in DOMAIN reqs : i < Len(reqs) /\ reqs[i].status = 500

\* C27: when a run has ended, with success or with a failure of
\* ResetDocument, a target document that was on the server before is on the
\* server, with the body it had or with the body as recreated.
C27_DocumentNeverLost ==
    (/\ DocID \in DOMAIN before.docs
     /\ \/ mpc = "done"
        \/ (mpc = "fatal" /\ fatalMsg[1] = "Failed to reset document")) =>
        /\ DocID \in DOMAIN srv.docs
        /\ Without(srv.docs[DocID], "_rev") \in
                {Without(before.docs[DocID], "_rev"),
                 CreateBody(UnmarshalMap(before.docs[DocID]))}

(***************************************************************************)
(* Claims on the scan's mutual exclusion and on termination                *)
(***************************************************************************)
\* A task is between mu.Lock() and mu.Unlock().
InSection(t) == tasks[t].pc \in {"read", "write", "unlock"}

\* C23: a task inside the section that appends to foundIPs holds mu, at
\* most one task is inside it, the slice a task is about to store is the
\* shared slice with its address appended, and mu is free whenever no task
\* is inside the section.
C23_AppendUnderMutex ==
    /\ \A t \in DOMAIN tasks : InSection(t) => mu = t
    /\ \A t \in DOMAIN tasks : \A u \in DOMAIN tasks :
        (InSection(t) /\ InSection(u)) => t = u
    /\ \A t \in DOMAIN tasks : tasks[t].pc = "write" => tasks[t].tmp = foundIPs
    /\ (\A t \in DOMAIN tasks : ~InSection(t)) => mu = 0

\* One task is about to store its append while another waits for mu.
C23_Witness ==
    \E t \in DOMAIN tasks : \E u \in DOMAIN tasks :
        tasks[t].pc = "write" /\ tasks[u].pc = "lock"

\* C24: under fair scheduling, ScanNetwork called with a block that parses
\* eventually returns.
C24_ScanTerminates == cidr.ok ~> (spc = "returned")

\* C25: for a block that parses, the loop of Hosts collects no more
\* addresses than the block has and does not run until memory is used up.
C25_HostsLoopEnds ==
    cidr.ok => (Len(ips) <= BlockSize(cidr) /\ hpc # "oom")

\* C26: when main has finished scanning, every host of the block was probed
\* once and no other address was probed, the instances reported as found
\* are the instances the loop runs over, and at the end of a run the
\* workflow was started once for each of them.
C26_OneScanCycle ==
    opc \in {"range", "done"} =>
        /\ \A a \in Addr : Count(probed, a) = (IF a \in Interior(cidr) THEN 1 ELSE 0)
        /\ Range(reported) = Range(mainFound)
        /\ opc = "done" =>
            \A a \in Addr : Count(processed, a) = (IF a \in Range(reported) THEN 1 ELSE 0)

====
